---- MODULE Spec2Model ----
(***************************************************************************)
(* Model of stats.py, the statistics harness of snakebot-client-js.        *)
(*                                                                         *)
(* The harness runs the game client num_runs times, strips ANSI escape     *)
(* codes from each captured output, scrapes the number of delayed moves,   *)
(* the game link and the winner, prints a win-rate report and writes       *)
(* stats_game_links.txt.                                                   *)
(*                                                                         *)
(* Spec      : the harness (trial loop, report loop, file write).          *)
(* SpecStrip : the ANSI strip of line 28 applied once and twice to every   *)
(*             text over a small alphabet.                                 *)
(***************************************************************************)
EXTENDS Integers, Sequences, FiniteSets, TLC

VARIABLES
    num_runs,                \* stats.py:5
    i,                       \* number of completed iterations of the loop of line 11
    pc,                      \* position of the script
    winners,                 \* stats.py:6, dict in insertion order: <<[name, count], ...>>
    winner_per_game,         \* stats.py:7
    delayed_moves_per_game,  \* stats.py:8
    game_links,              \* stats.py:9
    stdout,                  \* the lines printed so far
    file,                    \* stats_game_links.txt
    trials,                  \* history: what the regexes found in each completed trial
    text,                    \* SpecStrip: the text given to re.sub
    once,                    \* SpecStrip: the text after one strip
    twice,                   \* SpecStrip: the text after a second strip
    spc                      \* SpecStrip: position

vars == <<num_runs, i, pc, winners, winner_per_game, delayed_moves_per_game,
          game_links, stdout, file, trials, text, once, twice, spc>>

harnessVars == <<num_runs, i, pc, winners, winner_per_game, delayed_moves_per_game,
                 game_links, stdout, file, trials>>

stripVars == <<text, once, twice, spc>>

----------------------------------------------------------------------------
(* Bounds *)

MaxRuns == 3        \* num_runs ranges over 0..MaxRuns
MaxLen == 6         \* longest text given to the strip

(* Program constants *)

DelayLimit == 10    \* stats.py:58 and stats.py:60

----------------------------------------------------------------------------
(* What a trial's output can contain.  re.search gives None when the      *)
(* pattern does not occur: NoWinner and NoLink stand for None.  \w+ never  *)
(* matches the empty string and a link is never 0.                         *)

Names == {"Alice", "Bob", "Carol"}
NoWinner == ""
NoLink == 0

\* The numbers of occurrences of "Sent move within wrong world tick" in the
\* output of the g-th game: none or one more than DelayLimit, and for the
\* first game also exactly DelayLimit.
WarningCounts(g) ==
    {0, DelayLimit + 1} \cup (IF g = 1 THEN {DelayLimit} ELSE {})

\* The output of the g-th game (g = 1, 2, ...): the winner line it holds, if
\* any, the link line it holds, if any (the link of game g is g), and the
\* number of warnings.
Outputs(g) ==
    [winner : Names \cup {NoWinner}, link : {NoLink, g}, warnings : WarningCounts(g)]

Line(kind, name, n, m, idx) ==
    [kind |-> kind, name |-> name, n |-> n, m |-> m, idx |-> idx]

NoFile == [exists |-> FALSE, lines |-> <<>>]
PreviousFile ==
    [exists |-> TRUE,
     lines |-> <<[winner |-> "Previous", delayed_moves |-> 0, link |-> 0]>>]

----------------------------------------------------------------------------
Init ==
    /\ num_runs \in 0..MaxRuns
    /\ i = 0
    /\ pc = "loop"
    /\ winners = <<>>
    /\ winner_per_game = <<>>
    /\ delayed_moves_per_game = <<>>
    /\ game_links = <<>>
    /\ stdout = <<>>
    /\ file \in {NoFile, PreviousFile}
    /\ trials = <<>>
    /\ text = <<>>
    /\ once = <<>>
    /\ twice = <<>>
    /\ spc = "idle"

----------------------------------------------------------------------------
(* Helpers of the trial loop *)

\* winners[name] = 1 for every match: the count is set, not incremented.
Increment_SetsOne(w, name) ==
    IF \E k \in 1..Len(w) : w[k].name = name
    THEN [k \in 1..Len(w) |->
            IF w[k].name = name THEN [w[k] EXCEPT !.count = 1] ELSE w[k]]
    ELSE Append(w, [name |-> name, count |-> 1])

\* winners[winner_name] += 1 on a defaultdict(int): a missing key starts at 0
\* and is inserted after the existing keys.
Increment(w, name) ==
    IF \E k \in 1..Len(w) : w[k].name = name
    THEN [k \in 1..Len(w) |->
            IF w[k].name = name THEN [w[k] EXCEPT !.count = @ + 1] ELSE w[k]]
    ELSE Append(w, [name |-> name, count |-> 1])

\* The count is appended only when a warning was found.
RecordDelayed_SkipsZero(list, count) ==
    IF count > 0 THEN Append(list, count) ELSE list

\* delayed_moves_per_game.append(count): appended whatever the count.
RecordDelayed(list, count) == Append(list, count)

\* if link: game_links.append(link.group(1))
RecordLink(list, link) ==
    IF link # NoLink THEN Append(list, link) ELSE list

\* if winner: winner_per_game.append(winner_name)
RecordWinner(list, winner) ==
    IF winner # NoWinner THEN Append(list, winner) ELSE list

\* The lines one iteration prints.
TrialPrints(g, n, winner) ==
    <<Line("Run", "", g, n, <<>>)>> \o
    (IF winner # NoWinner THEN <<Line("Winner", winner, 0, 0, <<>>)>> ELSE <<>>)

----------------------------------------------------------------------------
(* Helpers of the report *)

\* The percentage is cut to two decimals instead of rounded.
RateHundredths_Truncates(count, n) == (10000 * count) \div n

\* f"{count/num_runs*100:.2f}", in hundredths of a percent: the nearest
\* hundredth.  10000*count/n lies exactly between two hundredths only when 32
\* divides n, so for the n of this model no tie is rounded.
RateHundredths(count, n) == (20000 * count + n) \div (2 * n)

\* max(delayed_moves_per_game), for a list that is not empty.
MaxOf(list) ==
    CHOOSE x \in {list[k] : k \in 1..Len(list)} :
        \A k \in 1..Len(list) : list[k] <= x

\* [i for i, x in enumerate(delayed_moves_per_game) if x > 10]
RECURSIVE IndicesOver(_, _)
IndicesOver(list, k) ==
    IF k > Len(list) THEN <<>>
    ELSE (IF list[k] > DelayLimit THEN <<k - 1>> ELSE <<>>) \o IndicesOver(list, k + 1)

\* The loop of lines 51-60 from the k-th key on.  ok is FALSE when the loop
\* raises: a division by zero (line 52) or max() of an empty list (line 58).
RECURSIVE ReportLoop(_, _, _, _, _)
ReportLoop(w, k, delayed, n, acc) ==
    IF k > Len(w) THEN [out |-> acc, ok |-> TRUE]
    ELSE IF n = 0 THEN [out |-> acc, ok |-> FALSE]
    ELSE LET acc1 == Append(acc, Line("Rate", w[k].name, w[k].count,
                                      RateHundredths(w[k].count, n), <<>>))
         IN  IF Len(delayed) = 0 THEN [out |-> acc1, ok |-> FALSE]
             ELSE LET acc2 ==
                        IF MaxOf(delayed) > DelayLimit
                        THEN acc1 \o <<Line("WARNING", "", 0, 0, <<>>),
                                       Line("Indices", "", 0, 0, IndicesOver(delayed, 1))>>
                        ELSE acc1
                  IN  ReportLoop(w, k + 1, delayed, n, acc2)

----------------------------------------------------------------------------
(* Helpers of the file write *)

\* The line of link k takes the winner of the last game.
FileLine_LastWinner(links, wpg, delayed, k) ==
    [winner |-> wpg[Len(wpg)], delayed_moves |-> delayed[k], link |-> links[k]]

\* f"Winner: {winner}, delayed_moves: {delayed_moves}, link: {item}\n" with
\* winner = winner_per_game[i] and delayed_moves = delayed_moves_per_game[i]
FileLine(links, wpg, delayed, k) ==
    [winner |-> wpg[k], delayed_moves |-> delayed[k], link |-> links[k]]

\* The loop of lines 64-67 from the k-th link on.  ok is FALSE when an index
\* is out of range (IndexError, lines 65 and 66); the lines written before are
\* in the file, which the with statement closes.
RECURSIVE WriteLoop(_, _, _, _, _)
WriteLoop(links, wpg, delayed, k, acc) ==
    IF k > Len(links) THEN [lines |-> acc, ok |-> TRUE]
    ELSE IF k > Len(wpg) \/ k > Len(delayed) THEN [lines |-> acc, ok |-> FALSE]
    ELSE WriteLoop(links, wpg, delayed, k + 1,
                   Append(acc, FileLine(links, wpg, delayed, k)))

----------------------------------------------------------------------------
(* The harness *)

\* One iteration of the loop of line 11 whose process exits with status 0.
RunTrial ==
    /\ pc = "loop"
    /\ i < num_runs
    /\ \E out \in Outputs(i + 1) :
        /\ stdout' = stdout \o TrialPrints(i + 1, num_runs, out.winner)
        /\ delayed_moves_per_game' = RecordDelayed(delayed_moves_per_game, out.warnings)
        /\ game_links' = RecordLink(game_links, out.link)
        /\ winner_per_game' = RecordWinner(winner_per_game, out.winner)
        /\ winners' = IF out.winner # NoWinner THEN Increment(winners, out.winner)
                      ELSE winners
        /\ trials' = Append(trials, out)
    /\ i' = i + 1
    /\ UNCHANGED <<num_runs, pc, file, stripVars>>

\* The failed game is recorded with no delayed move before the script stops.
TrialFails_RecordsGame ==
    /\ pc = "loop"
    /\ i < num_runs
    /\ stdout' = Append(stdout, Line("Run", "", i + 1, num_runs, <<>>))
    /\ delayed_moves_per_game' = Append(delayed_moves_per_game, 0)
    /\ pc' = "aborted"
    /\ UNCHANGED <<num_runs, i, winners, winner_per_game, game_links, file, trials,
                   stripVars>>

\* One iteration whose process exits with a status other than 0:
\* subprocess.check_output raises CalledProcessError, which nothing catches.
TrialFails ==
    /\ pc = "loop"
    /\ i < num_runs
    /\ stdout' = Append(stdout, Line("Run", "", i + 1, num_runs, <<>>))
    /\ pc' = "aborted"
    /\ UNCHANGED <<num_runs, i, winners, winner_per_game, delayed_moves_per_game,
                   game_links, file, trials, stripVars>>

\* Lines 48-60, after the last iteration.
Report ==
    /\ pc = "loop"
    /\ i = num_runs
    /\ LET r == ReportLoop(winners, 1, delayed_moves_per_game, num_runs,
                           <<Line("", "", 0, 0, <<>>), Line("Results:", "", 0, 0, <<>>)>>)
       IN  /\ stdout' = stdout \o r.out
           /\ pc' = IF r.ok THEN "write" ELSE "failed_report"
    /\ UNCHANGED <<num_runs, i, winners, winner_per_game, delayed_moves_per_game,
                   game_links, file, trials, stripVars>>

\* Lines 62-69: open("stats_game_links.txt", "w") truncates or creates the
\* file, the loop writes it, and the last line is printed when nothing raised.
WriteLinks ==
    /\ pc = "write"
    /\ LET r == WriteLoop(game_links, winner_per_game, delayed_moves_per_game, 1, <<>>)
       IN  /\ file' = [exists |-> TRUE, lines |-> r.lines]
           /\ stdout' = IF r.ok THEN Append(stdout, Line("GameLinks", "", 0, 0, <<>>))
                        ELSE stdout
           /\ pc' = IF r.ok THEN "done" ELSE "failed_write"
    /\ UNCHANGED <<num_runs, i, winners, winner_per_game, delayed_moves_per_game,
                   game_links, trials, stripVars>>

Next == RunTrial \/ TrialFails \/ Report \/ WriteLinks

Spec == Init /\ [][Next]_vars

----------------------------------------------------------------------------
(* The ANSI strip of line 28:                                              *)
(*   re.sub("\x1B\[([0-9]{1,2}(;[0-9]{1,2})?)?[mGK]", "", output)          *)
(* A text is a sequence of characters: "E" is \x1B, "1" a digit of [0-9],   *)
(* "m" a letter of [mGK]; "[" and ";" are themselves.                      *)

Chars == {"E", "[", "1", ";", "m"}
Texts == UNION {[1..n -> Chars] : n \in 0..MaxLen}

\* The character at position p, "" past the end.
At(s, p) == IF p >= 1 /\ p <= Len(s) THEN s[p] ELSE ""

\* [0-9]{1,2} at p: how many digits the greedy match takes (0: no match).
\* Taking fewer never helps, as a digit is neither ";" nor a final letter.
DigitsAt(s, p) ==
    IF At(s, p) # "1" THEN 0 ELSE IF At(s, p + 1) = "1" THEN 2 ELSE 1

\* The length of the match of the pattern that begins at p, 0 if none.
MatchLen(s, p) ==
    IF At(s, p) # "E" \/ At(s, p + 1) # "[" THEN 0
    ELSE LET q == p + 2
             d1 == DigitsAt(s, q)
         IN  IF d1 = 0 THEN (IF At(s, q) = "m" THEN 3 ELSE 0)
             ELSE IF At(s, q + d1) = "m" THEN 3 + d1
             ELSE IF At(s, q + d1) = ";"
                  THEN LET d2 == DigitsAt(s, q + d1 + 1)
                       IN  IF d2 > 0 /\ At(s, q + d1 + 1 + d2) = "m"
                           THEN 3 + d1 + 1 + d2 ELSE 0
             ELSE 0

\* Only the first sequence is removed, as re.sub with count=1 does.
RECURSIVE StripFrom_FirstOnly(_, _)
StripFrom_FirstOnly(s, p) ==
    IF p > Len(s) THEN <<>>
    ELSE IF MatchLen(s, p) > 0 THEN SubSeq(s, p + MatchLen(s, p), Len(s))
    ELSE <<s[p]>> \o StripFrom_FirstOnly(s, p + 1)

\* re.sub from position p on: the leftmost match is removed and the scan goes
\* on after it; a character where no match begins is kept.
RECURSIVE StripFrom(_, _)
StripFrom(s, p) ==
    IF p > Len(s) THEN <<>>
    ELSE IF MatchLen(s, p) > 0 THEN StripFrom(s, p + MatchLen(s, p))
    ELSE <<s[p]>> \o StripFrom(s, p + 1)

StripAnsi(s) == StripFrom(s, 1)

InitStrip ==
    /\ num_runs = 0
    /\ i = 0
    /\ pc = "idle"
    /\ winners = <<>>
    /\ winner_per_game = <<>>
    /\ delayed_moves_per_game = <<>>
    /\ game_links = <<>>
    /\ stdout = <<>>
    /\ file = NoFile
    /\ trials = <<>>
    /\ text \in Texts
    /\ once = <<>>
    /\ twice = <<>>
    /\ spc = "raw"

\* output = re.sub(..., "", output)
StripOnce ==
    /\ spc = "raw"
    /\ once' = StripAnsi(text)
    /\ spc' = "once"
    /\ UNCHANGED <<text, twice, harnessVars>>

\* The strip applied to the stripped text.
StripTwice ==
    /\ spc = "once"
    /\ twice' = StripAnsi(once)
    /\ spc' = "twice"
    /\ UNCHANGED <<text, once, harnessVars>>

NextStrip == StripOnce \/ StripTwice

SpecStrip == InitStrip /\ [][NextStrip]_vars

----------------------------------------------------------------------------
(* Vocabulary of the properties *)

RECURSIVE SumCounts(_, _)
SumCounts(w, k) == IF k > Len(w) THEN 0 ELSE w[k].count + SumCounts(w, k + 1)

\* The completed trials that announced name / that had a link line.
TrialsWonBy(name) == {k \in 1..Len(trials) : trials[k].winner = name}
TrialsWithWinner == {k \in 1..Len(trials) : trials[k].winner # NoWinner}
TrialsWithLink == {k \in 1..Len(trials) : trials[k].link # NoLink}

AllTrialsDone == i = num_runs /\ Len(trials) = num_runs
EveryTrialHasWinner == TrialsWithWinner = 1..Len(trials)
EveryTrialHasBoth == EveryTrialHasWinner /\ TrialsWithLink = 1..Len(trials)

IsPrefix(s, t) == Len(s) <= Len(t) /\ \A k \in 1..Len(s) : s[k] = t[k]

Printed(kind) == {k \in 1..Len(stdout) : stdout[k].kind = kind}
ReportPrinted == pc \in {"write", "done", "failed_write"}

RECURSIVE SumRates(_)
SumRates(ks) ==
    IF ks = {} THEN 0
    ELSE LET k == CHOOSE x \in ks : TRUE IN stdout[k].m + SumRates(ks \ {k})

Abs(x) == IF x < 0 THEN -x ELSE x

----------------------------------------------------------------------------
\* C1: when every one of the N >= 1 trials announced a winner, after the loop
\* the counts of the aggregate mapping sum to N, and the count of each winner
\* is the number of trials that announced it.
THM_C1 ==
    (AllTrialsDone /\ num_runs >= 1 /\ EveryTrialHasWinner) =>
        /\ SumCounts(winners, 1) = num_runs
        /\ \A k \in 1..Len(winners) :
              /\ winners[k].count = Cardinality(TrialsWonBy(winners[k].name))
              /\ \A j \in 1..Len(winners) : winners[j].name = winners[k].name => j = k
        /\ \A name \in Names :
              TrialsWonBy(name) # {} => \E k \in 1..Len(winners) : winners[k].name = name

WIT_C1 ==
    /\ AllTrialsDone /\ EveryTrialHasWinner
    /\ Len(winners) >= 2
    /\ \E k \in 1..Len(winners) : winners[k].count >= 2

\* C2: when all trials complete, the file ends up with one line per trial
\* that had a link match, whatever trials had a link or a winner match.
CEX_C2 ==
    pc \in {"done", "failed_write"} =>
        file.exists /\ Len(file.lines) = Len(game_links)

\* C3: trials whose output lacks the winner or the link never make the
\* harness raise: no run ends in an error of the report or of the file write.
CEX_C3 == pc \notin {"failed_report", "failed_write"}

\* C4: after the trials, the warning is printed exactly when the largest
\* delayed-move count exceeds 10, with the zero-based indices of the trials
\* over 10, however many trials announced a winner.
CEX_C4 ==
    (ReportPrinted /\ num_runs >= 1) =>
        /\ (Printed("WARNING") # {}) <=> (MaxOf(delayed_moves_per_game) > DelayLimit)
        /\ (Printed("Indices") # {}) <=> (MaxOf(delayed_moves_per_game) > DelayLimit)
        /\ \A k \in Printed("Indices") :
              stdout[k].idx = IndicesOver(delayed_moves_per_game, 1)

\* C5: when the process of a trial exits with a status other than 0 the
\* harness stops there: the lists, the counters and the file are as they were
\* before that trial, no later trial starts, "Results:" is never printed and
\* the file is neither created nor overwritten.
AbortedState ==
    /\ i < num_runs
    /\ Len(trials) = i
    /\ Len(delayed_moves_per_game) = i
    /\ Len(winner_per_game) = Cardinality(TrialsWithWinner)
    /\ Len(game_links) = Cardinality(TrialsWithLink)
    /\ SumCounts(winners, 1) = Cardinality(TrialsWithWinner)
    /\ Printed("Results:") = {}
    /\ Printed("GameLinks") = {}
    /\ \A k \in Printed("Run") : stdout[k].n <= i + 1
    /\ file \in {NoFile, PreviousFile}

AbortStep ==
    /\ pc' = "aborted" =>
          UNCHANGED <<num_runs, i, winners, winner_per_game, delayed_moves_per_game,
                      game_links, file, trials>>
    /\ pc = "aborted" => UNCHANGED vars

\* C5: an aborted harness is in AbortedState, the step that aborts leaves the
\* lists, the counters and the file alone, and no step follows it.
THM_C5 == [](pc = "aborted" => AbortedState) /\ [][AbortStep]_vars

WIT_C5 ==
    /\ pc = "aborted"
    /\ i >= 2
    /\ Len(winners) >= 1
    /\ Len(game_links) >= 1
    /\ file = PreviousFile

\* C6: when every trial had a winner and a link, the three lists hold the
\* facts of trial k at position k, the write ends without error and line k
\* of the file holds the winner, the count and the link of trial k.
THM_C6 ==
    EveryTrialHasBoth =>
        /\ Len(winner_per_game) = Len(trials)
        /\ Len(game_links) = Len(trials)
        /\ Len(delayed_moves_per_game) = Len(trials)
        /\ \A k \in 1..Len(trials) :
              /\ winner_per_game[k] = trials[k].winner
              /\ game_links[k] = trials[k].link
              /\ delayed_moves_per_game[k] = trials[k].warnings
        /\ pc # "failed_write"
        /\ pc = "done" =>
              /\ file.exists
              /\ Len(file.lines) = num_runs
              /\ \A k \in 1..num_runs :
                    file.lines[k] = [winner |-> trials[k].winner,
                                     delayed_moves |-> trials[k].warnings,
                                     link |-> trials[k].link]

WIT_C6 ==
    /\ pc = "done"
    /\ num_runs >= 2
    /\ EveryTrialHasBoth
    /\ trials[1].winner # trials[2].winner
    /\ trials[1].warnings # trials[2].warnings

\* C7: for every text, stripping the stripped text gives the stripped text.
CEX_C7 == spc = "twice" => twice = once

\* C7 as amended: for every text in which each ESC begins a sequence of the
\* pattern, the stripped text holds no ESC and a second strip leaves it as
\* it is.
EveryEscBeginsSequence(s) ==
    \A p \in 1..Len(s) : s[p] = "E" => MatchLen(s, p) > 0

\* C7 as amended: when each ESC of the text begins a sequence, one strip
\* removes every ESC and a second strip changes nothing.
THM_C7 ==
    (spc = "twice" /\ EveryEscBeginsSequence(text)) =>
        /\ \A p \in 1..Len(once) : once[p] # "E"
        /\ twice = once

WIT_C7 ==
    /\ spc = "twice"
    /\ EveryEscBeginsSequence(text)
    /\ \E p \in 1..Len(text) : text[p] = "E" /\ MatchLen(text, p) >= 4
    /\ Len(once) >= 1
    /\ Len(once) < Len(text)

\* C8: the report prints one line per distinct winner, its rate is
\* count/N x 100 shown with two decimals, and when every trial announced a
\* winner the printed rates add up to 100.00.
RateLinesRight ==
    /\ \A name \in Names :
          Cardinality({k \in Printed("Rate") : stdout[k].name = name})
              = (IF TrialsWonBy(name) # {} THEN 1 ELSE 0)
    /\ \A k \in Printed("Rate") :
          /\ stdout[k].n = Cardinality(TrialsWonBy(stdout[k].name))
          /\ 2 * Abs(stdout[k].m * num_runs - 10000 * stdout[k].n) <= num_runs

\* C8: the rate lines are right and, with a winner in every trial, the
\* printed rates add up to exactly 100.00.
CEX_C8 ==
    ReportPrinted =>
        /\ RateLinesRight
        /\ (num_runs >= 1 /\ EveryTrialHasWinner) => SumRates(Printed("Rate")) = 10000

\* C8 as amended: one line per distinct winner, each rate is count/N x 100
\* rounded to two decimals, and when every trial announced a winner the
\* counts on the lines add up to N and the printed rates add up to 100.00
\* within 0.005 per line.
THM_C8 ==
    ReportPrinted =>
        /\ RateLinesRight
        /\ (num_runs >= 1 /\ EveryTrialHasWinner) =>
              /\ SumCounts(winners, 1) = num_runs
              /\ 2 * Abs(SumRates(Printed("Rate")) - 10000)
                    <= Cardinality(Printed("Rate"))

WIT_C8 ==
    /\ pc = "done"
    /\ num_runs = 3
    /\ EveryTrialHasWinner
    /\ \E k \in Printed("Rate") : stdout[k].n = 2 /\ stdout[k].m = 6667
    /\ \E k \in Printed("Rate") : stdout[k].n = 1 /\ stdout[k].m = 3333

\* C9: with zero trials the report computes the maximum of the empty list
\* and fails, so the harness never gets to write the file.
CEX_C9 == num_runs = 0 => pc \notin {"write", "done"}

\* C10: after k completed trials the delayed-move list has k entries, entry
\* k being the count of trial k; the winner list has as many entries as the
\* counts of the mapping add up to, the number of completed trials with a
\* winner; the link list has as many entries as completed trials with a
\* link; both are at most k long; and every list only grows at its end.
ListsInv ==
    /\ Len(trials) = i
    /\ Len(delayed_moves_per_game) = i
    /\ \A k \in 1..Len(delayed_moves_per_game) :
          k <= Len(trials) /\ delayed_moves_per_game[k] = trials[k].warnings
    /\ Len(winner_per_game) = SumCounts(winners, 1)
    /\ Len(winner_per_game) = Cardinality(TrialsWithWinner)
    /\ Len(game_links) = Cardinality(TrialsWithLink)
    /\ Len(winner_per_game) <= i
    /\ Len(game_links) <= i

ListsStep ==
    /\ IsPrefix(delayed_moves_per_game, delayed_moves_per_game')
    /\ IsPrefix(winner_per_game, winner_per_game')
    /\ IsPrefix(game_links, game_links')

\* C10: ListsInv holds in every state and every step only appends to the lists.
THM_C10 == []ListsInv /\ [][ListsStep]_vars

WIT_C10 ==
    /\ i = 3
    /\ Len(winner_per_game) = 1
    /\ Len(game_links) = 2
    /\ delayed_moves_per_game = <<0, 11, 0>>

====
